---- MODULE Spec2Model ----
(***************************************************************************)
(* The Avro schema model of arrow-avro/src/schema.rs: the serde-derived    *)
(* decode (Deserialize) and encode (Serialize) of Schema, TypeName, Type,  *)
(* ComplexType, Record, Field, Enum, Array, Map, Fixed and Attributes,     *)
(* applied to JSON documents drawn from a bounded set.                     *)
(*                                                                         *)
(* A JSON document is the parsed text: a string literal keeps whether it   *)
(* was written with an escape sequence (esc), because such a literal       *)
(* cannot be borrowed from the source buffer as a &'a str; an object is    *)
(* the sequence of its key/value pairs in the order written.               *)
(*                                                                         *)
(* The second part is the run of parquet/src/bin/parquet-show-bloom-filter *)
(* over a Parquet file drawn from a bounded set: open, read the metadata,  *)
(* then per row group find the column, read the row group and check every  *)
(* requested value against the column's bloom filter.                      *)
(***************************************************************************)
EXTENDS Integers, Sequences, FiniteSets, TLC

VARIABLES doc, pc, result, seed, text, result2, seed2, text2

\* the bloom-filter run: its arguments, the file, the position of main, its output
VARIABLES file, args, cpc, ri, vi, out

schemaVars == <<doc, pc, result, seed, text, result2, seed2, text2>>
cliVars == <<file, args, cpc, ri, vi, out>>
vars == <<doc, pc, result, seed, text, result2, seed2, text2,
          file, args, cpc, ri, vi, out>>

----------------------------------------------------------------------------
(* Bounds of the checked inputs *)

\* nesting depth of the wrappers (union, array, map, record field) around a core document
MaxDepth == 2
\* longest union written in an input document
MaxUnionLen == 2
\* number of distinct hasher seeds a HashMap instance may draw
NumSeeds == 2
\* most row groups of a checked file
MaxRowGroups == 2
\* most values given on the command line
MaxValues == 2

----------------------------------------------------------------------------
(* JSON documents *)

JNull == [k |-> "null"]
JBool(b) == [k |-> "bool", b |-> b]
\* an integer literal
JNum(n) == [k |-> "num", n |-> n]
\* a literal with a fraction part, n + 1/2
JFloat(n) == [k |-> "float", n |-> n]
\* a string literal written without / with an escape sequence
JStr(s) == [k |-> "str", s |-> s, esc |-> FALSE]
JEsc(s) == [k |-> "str", s |-> s, esc |-> TRUE]
JArr(a) == [k |-> "arr", a |-> a]
JObj(o) == [k |-> "obj", o |-> o]
KV(key, val) == [key |-> key, val |-> val]

\* serde_json::Value: strings are owned contents, objects are maps
VStr(s) == [k |-> "vstr", s |-> s]
VObj(m) == [k |-> "vobj", m |-> m]

Ok(v) == [ok |-> TRUE, v |-> v]
Err == [ok |-> FALSE]

None == [some |-> FALSE]
Some(s) == [some |-> TRUE, s |-> s]

----------------------------------------------------------------------------
(* Keys and words *)

PrimitiveWords == {"null", "boolean", "int", "long", "float", "double", "bytes", "string"}

\* the variants of ComplexType in declaration order (their variant indices are 0..4)
ComplexTags == <<"record", "enum", "array", "map", "fixed">>

ComplexTagSet == {ComplexTags[i] : i \in 1..Len(ComplexTags)}

\* every object key of the checked documents, in the byte order of a BTreeMap<String, _>
SortedKeys == <<"aliases", "default", "doc", "fields", "int", "items", "logicalType",
                "name", "namespace", "precision", "scale", "size", "symbols", "type",
                "values">>

RecordKeys == {"name", "namespace", "doc", "aliases", "fields"}
EnumKeys == {"name", "namespace", "doc", "aliases", "symbols", "default"}
ArrayKeys == {"items"}
MapKeys == {"values"}
FixedKeys == {"name", "namespace", "aliases", "size"}

----------------------------------------------------------------------------
(* Access to the pairs of an object *)

Count(o, key) == Cardinality({i \in 1..Len(o) : o[i].key = key})

\* the value written for a key; a key that is not written has no value
Absent == [k |-> "absent"]

Get(o, key) ==
    IF Count(o, key) = 0 THEN Absent ELSE o[CHOOSE i \in 1..Len(o) : o[i].key = key].val

\* the value a map keeps for a key written more than once: the last one
LastVal(o, key) ==
    o[CHOOSE i \in 1..Len(o) : o[i].key = key /\ \A j \in (i + 1)..Len(o) : o[j].key # key].val

Without(o, keys) == SelectSeq(o, LAMBDA e : e.key \notin keys)

KeysOf(o) == {o[i].key : i \in 1..Len(o)}

\* a struct field without #[serde(default)]: missing or duplicated is an error
Required(o, key, r) == IF Count(o, key) = 1 THEN r ELSE Err

\* a struct field whose missing key always reads as an absent value
DefaultedToNone(o, key, r, dflt) ==
    IF Count(o, key) = 0 THEN Ok(None)
    ELSE IF Count(o, key) = 1 THEN r ELSE Err

\* a struct field with #[serde(default)]: missing takes the default
Defaulted(o, key, r, dflt) ==
    IF Count(o, key) = 0 THEN Ok(dflt)
    ELSE IF Count(o, key) = 1 THEN r ELSE Err

----------------------------------------------------------------------------
(* serde_json::Value, the value type of Attributes::additional *)

RECURSIVE ToValue(_)
ToValue(j) ==
    CASE j.k = "str" -> VStr(j.s)
      [] j.k = "arr" -> JArr([i \in 1..Len(j.a) |-> ToValue(j.a[i])])
      [] j.k = "obj" -> VObj([key \in KeysOf(j.o) |-> ToValue(LastVal(j.o, key))])
      [] OTHER -> j

SortKeys(S) == SelectSeq(SortedKeys, LAMBDA key : key \in S)

RECURSIVE FromValue(_)
FromValue(v) ==
    CASE v.k = "vstr" -> JStr(v.s)
      [] v.k = "arr" -> JArr([i \in 1..Len(v.a) |-> FromValue(v.a[i])])
      [] v.k = "vobj" ->
            LET ks == SortKeys(DOMAIN v.m)
            IN JObj([i \in 1..Len(ks) |-> KV(ks[i], FromValue(v.m[ks[i]]))])
      [] OTHER -> v

\* the iteration order of a HashMap whose RandomState drew this seed
HashOrder(S, sd) ==
    LET ks == SortKeys(S)
        n == Len(ks)
    IN [i \in 1..n |-> ks[((i - 1 + sd - 1) % n) + 1]]

----------------------------------------------------------------------------
(* Decode: the derived Deserialize implementations *)

\* &'a str: only a literal that can be borrowed from the buffer
DeserializeStr(j) == IF j.k = "str" /\ ~j.esc THEN Ok(j.s) ELSE Err

\* Option<&'a str>
DeserializeOptStr(j) ==
    IF j.k = "null" THEN Ok(None)
    ELSE IF DeserializeStr(j).ok THEN Ok(Some(j.s)) ELSE Err

\* Vec<&'a str>
DeserializeStrVec(j) ==
    IF j.k = "arr" /\ \A i \in 1..Len(j.a) : DeserializeStr(j.a[i]).ok
    THEN Ok([i \in 1..Len(j.a) |-> j.a[i].s])
    ELSE Err

\* usize
DeserializeUsize(j) == IF j.k = "num" /\ j.n >= 0 THEN Ok(j.n) ELSE Err

\* PrimitiveType: a unit-variant enum, read from buffered content: its word as a
\* string, or a map with the word as its single key and a unit value
DeserializePrimitiveType(j) ==
    IF j.k = "str" /\ j.s \in PrimitiveWords THEN Ok(j.s)
    ELSE IF /\ j.k = "obj"
            /\ Len(j.o) = 1
            /\ j.o[1].key \in PrimitiveWords
            /\ j.o[1].val.k = "null"
         THEN Ok(j.o[1].key)
         ELSE Err

Primitive(w) == [prim |-> TRUE, s |-> w]
Ref(s) == [prim |-> FALSE, s |-> s]

\* TypeName, untagged: Primitive first, then Ref
DeserializeTypeName(j) ==
    IF DeserializePrimitiveType(j).ok THEN Ok(Primitive(DeserializePrimitiveType(j).v))
    ELSE IF DeserializeStr(j).ok THEN Ok(Ref(j.s)) ELSE Err

\* Attributes whose open mapping also keeps the logicalType pair
DeserializeAttributesKeepingLogicalType(o) ==
    LET lt == Defaulted(o, "logicalType", DeserializeOptStr(Get(o, "logicalType")), None)
    IN IF lt.ok
       THEN Ok([logical_type |-> lt.v,
                additional |-> [key \in KeysOf(o) |-> ToValue(LastVal(o, key))]])
       ELSE Err

\* Attributes, from the pairs its owner did not consume
DeserializeAttributes(o) ==
    LET lt == Defaulted(o, "logicalType", DeserializeOptStr(Get(o, "logicalType")), None)
        rest == Without(o, {"logicalType"})
    IN IF lt.ok
       THEN Ok([logical_type |-> lt.v,
                additional |-> [key \in KeysOf(rest) |-> ToValue(LastVal(rest, key))]])
       ELSE Err

\* the tag of the internally tagged ComplexType: a variant name or a variant index
DeserializeTag(j) ==
    IF j.k = "str" /\ j.s \in ComplexTagSet THEN Ok(j.s)
    ELSE IF j.k = "num" /\ j.n >= 0 /\ j.n < Len(ComplexTags) THEN Ok(ComplexTags[j.n + 1])
    ELSE Err

RECURSIVE DeserializeSchema(_)
RECURSIVE DeserializeUnion(_)
RECURSIVE DeserializeComplexType(_)
RECURSIVE DeserializeRecord(_)
RECURSIVE DeserializeField(_)
RECURSIVE DeserializeFields(_)
RECURSIVE DeserializeArray(_)
RECURSIVE DeserializeMap(_)

\* Type: "type" as a TypeName, every other pair to the flattened Attributes
DeserializeType(j) ==
    IF j.k # "obj" THEN Err
    ELSE LET t == Required(j.o, "type", DeserializeTypeName(Get(j.o, "type")))
             a == DeserializeAttributes(Without(j.o, {"type"}))
         IN IF t.ok /\ a.ok THEN Ok([type |-> t.v, attributes |-> a.v]) ELSE Err

DeserializeEnum(o) ==
    LET name == Required(o, "name", DeserializeStr(Get(o, "name")))
        namespace == Defaulted(o, "namespace", DeserializeOptStr(Get(o, "namespace")), None)
        docs == Defaulted(o, "doc", DeserializeOptStr(Get(o, "doc")), None)
        aliases == Defaulted(o, "aliases", DeserializeStrVec(Get(o, "aliases")), <<>>)
        symbols == Required(o, "symbols", DeserializeStrVec(Get(o, "symbols")))
        default == Defaulted(o, "default", DeserializeOptStr(Get(o, "default")), None)
        a == DeserializeAttributes(Without(o, EnumKeys))
    IN IF name.ok /\ namespace.ok /\ docs.ok /\ aliases.ok /\ symbols.ok /\ default.ok /\ a.ok
       THEN Ok([tag |-> "enum", name |-> name.v, namespace |-> namespace.v, doc |-> docs.v,
                aliases |-> aliases.v, symbols |-> symbols.v, default |-> default.v,
                attributes |-> a.v])
       ELSE Err

DeserializeFixed(o) ==
    LET name == Required(o, "name", DeserializeStr(Get(o, "name")))
        namespace == Defaulted(o, "namespace", DeserializeOptStr(Get(o, "namespace")), None)
        aliases == Defaulted(o, "aliases", DeserializeStrVec(Get(o, "aliases")), <<>>)
        size == Required(o, "size", DeserializeUsize(Get(o, "size")))
        a == DeserializeAttributes(Without(o, FixedKeys))
    IN IF name.ok /\ namespace.ok /\ aliases.ok /\ size.ok /\ a.ok
       THEN Ok([tag |-> "fixed", name |-> name.v, namespace |-> namespace.v,
                aliases |-> aliases.v, size |-> size.v, attributes |-> a.v])
       ELSE Err

\* Field: a plain struct, read from a map (unknown keys ignored) or from a sequence
\* of its members in declaration order
DeserializeField(j) ==
    IF j.k = "obj"
    THEN LET name == Required(j.o, "name", DeserializeStr(Get(j.o, "name")))
             docs == Defaulted(j.o, "doc", DeserializeOptStr(Get(j.o, "doc")), None)
             type == Required(j.o, "type", DeserializeSchema(Get(j.o, "type")))
             default == Defaulted(j.o, "default", DeserializeOptStr(Get(j.o, "default")), None)
         IN IF name.ok /\ docs.ok /\ type.ok /\ default.ok
            THEN Ok([name |-> name.v, doc |-> docs.v, type |-> type.v, default |-> default.v])
            ELSE Err
    ELSE IF j.k = "arr" /\ Len(j.a) \in {3, 4}
    THEN LET name == DeserializeStr(j.a[1])
             docs == DeserializeOptStr(j.a[2])
             type == DeserializeSchema(j.a[3])
             default == IF Len(j.a) = 4 THEN DeserializeOptStr(j.a[4]) ELSE Ok(None)
         IN IF name.ok /\ docs.ok /\ type.ok /\ default.ok
            THEN Ok([name |-> name.v, doc |-> docs.v, type |-> type.v, default |-> default.v])
            ELSE Err
    ELSE Err

\* Vec<Field<'a>>
DeserializeFields(j) ==
    IF j.k = "arr" /\ \A i \in 1..Len(j.a) : DeserializeField(j.a[i]).ok
    THEN Ok([i \in 1..Len(j.a) |-> DeserializeField(j.a[i]).v])
    ELSE Err

DeserializeRecord(o) ==
    LET name == Required(o, "name", DeserializeStr(Get(o, "name")))
        namespace == Defaulted(o, "namespace", DeserializeOptStr(Get(o, "namespace")), None)
        docs == Defaulted(o, "doc", DeserializeOptStr(Get(o, "doc")), None)
        aliases == Defaulted(o, "aliases", DeserializeStrVec(Get(o, "aliases")), <<>>)
        fields == Required(o, "fields", DeserializeFields(Get(o, "fields")))
        a == DeserializeAttributes(Without(o, RecordKeys))
    IN IF name.ok /\ namespace.ok /\ docs.ok /\ aliases.ok /\ fields.ok /\ a.ok
       THEN Ok([tag |-> "record", name |-> name.v, namespace |-> namespace.v, doc |-> docs.v,
                aliases |-> aliases.v, fields |-> fields.v, attributes |-> a.v])
       ELSE Err

DeserializeArray(o) ==
    LET items == Required(o, "items", DeserializeSchema(Get(o, "items")))
        a == DeserializeAttributes(Without(o, ArrayKeys))
    IN IF items.ok /\ a.ok
       THEN Ok([tag |-> "array", items |-> items.v, attributes |-> a.v])
       ELSE Err

DeserializeMap(o) ==
    LET values == Required(o, "values", DeserializeSchema(Get(o, "values")))
        a == DeserializeAttributes(Without(o, MapKeys))
    IN IF values.ok /\ a.ok
       THEN Ok([tag |-> "map", values |-> values.v, attributes |-> a.v])
       ELSE Err

\* ComplexType, internally tagged by "type": the tag picks the variant, which reads
\* the remaining pairs
DeserializeComplexType(j) ==
    IF j.k # "obj" THEN Err
    ELSE LET tag == Required(j.o, "type", DeserializeTag(Get(j.o, "type")))
             rest == Without(j.o, {"type"})
         IN IF ~tag.ok THEN Err
            ELSE CASE tag.v = "record" -> DeserializeRecord(rest)
                   [] tag.v = "enum" -> DeserializeEnum(rest)
                   [] tag.v = "array" -> DeserializeArray(rest)
                   [] tag.v = "map" -> DeserializeMap(rest)
                   [] tag.v = "fixed" -> DeserializeFixed(rest)

\* a union that drops the members it cannot read instead of failing
DeserializeUnionLenient(j) ==
    IF j.k = "arr"
    THEN LET good == SelectSeq(j.a, LAMBDA x : DeserializeSchema(x).ok)
         IN Ok([i \in 1..Len(good) |-> DeserializeSchema(good[i]).v])
    ELSE Err

\* Vec<Schema<'a>>
DeserializeUnion(j) ==
    IF j.k = "arr" /\ \A i \in 1..Len(j.a) : DeserializeSchema(j.a[i]).ok
    THEN Ok([i \in 1..Len(j.a) |-> DeserializeSchema(j.a[i]).v])
    ELSE Err

\* the dispatch with the generic annotated type tried before the complex tags
DeserializeSchemaTypeFirst(j) ==
    IF DeserializeTypeName(j).ok
    THEN Ok([v |-> "TypeName", name |-> DeserializeTypeName(j).v])
    ELSE IF DeserializeUnion(j).ok
    THEN Ok([v |-> "Union", members |-> DeserializeUnion(j).v])
    ELSE IF DeserializeType(j).ok
    THEN Ok([v |-> "Type", t |-> DeserializeType(j).v])
    ELSE IF DeserializeComplexType(j).ok
    THEN Ok([v |-> "Complex", c |-> DeserializeComplexType(j).v])
    ELSE Err

\* Schema, untagged: the first variant that reads the buffered content wins
DeserializeSchema(j) ==
    IF DeserializeTypeName(j).ok
    THEN Ok([v |-> "TypeName", name |-> DeserializeTypeName(j).v])
    ELSE IF DeserializeUnion(j).ok
    THEN Ok([v |-> "Union", members |-> DeserializeUnion(j).v])
    ELSE IF DeserializeComplexType(j).ok
    THEN Ok([v |-> "Complex", c |-> DeserializeComplexType(j).v])
    ELSE IF DeserializeType(j).ok
    THEN Ok([v |-> "Type", t |-> DeserializeType(j).v])
    ELSE Err

----------------------------------------------------------------------------
(* Encode: the derived Serialize implementations *)

\* Option<&'a str> without skip_serializing_if: None is written as null
SerializeOptStr(o) == IF o.some THEN JStr(o.s) ELSE JNull

SerializeStrVec(v) == JArr([i \in 1..Len(v) |-> JStr(v[i])])

\* a primitive is written as its word, a reference verbatim
SerializeTypeName(tn) == JStr(tn.s)

\* Attributes, flattened into the owner's map: logicalType, then the HashMap in its
\* iteration order
SerializeAttributes(a, sd) ==
    LET ks == HashOrder(DOMAIN a.additional, sd)
    IN <<KV("logicalType", SerializeOptStr(a.logical_type))>>
       \o [i \in 1..Len(ks) |-> KV(ks[i], FromValue(a.additional[ks[i]]))]

RECURSIVE SerializeSchema(_, _)
RECURSIVE SerializeComplexType(_, _)
RECURSIVE SerializeField(_, _)

SerializeField(f, sd) ==
    JObj(<<KV("name", JStr(f.name)), KV("doc", SerializeOptStr(f.doc)),
           KV("type", SerializeSchema(f.type, sd)),
           KV("default", SerializeOptStr(f.default))>>)

SerializeType(t, sd) ==
    JObj(<<KV("type", SerializeTypeName(t.type))>> \o SerializeAttributes(t.attributes, sd))

\* ComplexType, internally tagged: the tag first, then the variant's members in
\* declaration order, then its flattened attributes
SerializeComplexType(c, sd) ==
    CASE c.tag = "record" ->
            JObj(<<KV("type", JStr("record")), KV("name", JStr(c.name)),
                   KV("namespace", SerializeOptStr(c.namespace)),
                   KV("doc", SerializeOptStr(c.doc)),
                   KV("aliases", SerializeStrVec(c.aliases)),
                   KV("fields", JArr([i \in 1..Len(c.fields) |->
                                         SerializeField(c.fields[i], sd)]))>>
                 \o SerializeAttributes(c.attributes, sd))
      [] c.tag = "enum" ->
            JObj(<<KV("type", JStr("enum")), KV("name", JStr(c.name)),
                   KV("namespace", SerializeOptStr(c.namespace)),
                   KV("doc", SerializeOptStr(c.doc)),
                   KV("aliases", SerializeStrVec(c.aliases)),
                   KV("symbols", SerializeStrVec(c.symbols)),
                   KV("default", SerializeOptStr(c.default))>>
                 \o SerializeAttributes(c.attributes, sd))
      [] c.tag = "array" ->
            JObj(<<KV("type", JStr("array")), KV("items", SerializeSchema(c.items, sd))>>
                 \o SerializeAttributes(c.attributes, sd))
      [] c.tag = "map" ->
            JObj(<<KV("type", JStr("map")), KV("values", SerializeSchema(c.values, sd))>>
                 \o SerializeAttributes(c.attributes, sd))
      [] c.tag = "fixed" ->
            JObj(<<KV("type", JStr("fixed")), KV("name", JStr(c.name)),
                   KV("namespace", SerializeOptStr(c.namespace)),
                   KV("aliases", SerializeStrVec(c.aliases)),
                   KV("size", JNum(c.size))>>
                 \o SerializeAttributes(c.attributes, sd))

\* Schema, untagged: the variant's own form
SerializeSchema(s, sd) ==
    CASE s.v = "TypeName" -> SerializeTypeName(s.name)
      [] s.v = "Union" ->
            JArr([i \in 1..Len(s.members) |-> SerializeSchema(s.members[i], sd)])
      [] s.v = "Complex" -> SerializeComplexType(s.c, sd)
      [] s.v = "Type" -> SerializeType(s.t, sd)

----------------------------------------------------------------------------
(* The checked input documents *)

AttrChoices ==
    { <<>>,
      <<KV("logicalType", JStr("decimal"))>>,
      <<KV("precision", JNum(25)), KV("scale", JNum(2))>>,
      <<KV("scale", JEsc("two")), KV("logicalType", JNull)>>,
      <<KV("logicalType", JStr("decimal")), KV("precision", JNum(25)), KV("scale", JNum(2))>> }

BadAttrChoices ==
    { <<KV("logicalType", JNum(5))>>,
      <<KV("logicalType", JEsc("decimal"))>> }

NameChoices == { <<KV("name", JStr("n"))>>, <<>>, <<KV("name", JEsc("n"))>>, <<KV("name", JNum(5))>> }

OptChoices ==
    { <<>>,
      <<KV("namespace", JStr("ns")), KV("aliases", JArr(<<JStr("a1"), JStr("a2")>>))>>,
      <<KV("namespace", JNull), KV("doc", JStr("text"))>>,
      <<KV("aliases", JStr("a1"))>> }

SizeChoices ==
    { <<KV("size", JNum(11))>>, <<>>, <<KV("size", JNum(-1))>>, <<KV("size", JFloat(11))>>,
      <<KV("size", JStr("11"))>>, <<KV("size", JNum(0))>> }

DefaultChoices ==
    { <<>>, <<KV("default", JStr("abc"))>>, <<KV("default", JNum(5))>>,
      <<KV("default", JNull)>>, <<KV("default", JEsc("abc"))>>,
      <<KV("default", JArr(<<>>))>> }

FieldOf(t, d) == JObj(<<KV("name", JStr("f")), KV("type", t)>> \o d)

FieldChoices ==
    { FieldOf(JStr("int"), d) : d \in DefaultChoices }
    \cup { JObj(<<KV("type", JStr("int"))>>),
           JObj(<<KV("name", JStr("f"))>>),
           JObj(<<KV("name", JStr("f")), KV("doc", JNull), KV("type", JStr("long")),
                  KV("order", JStr("ascending"))>>),
           JObj(<<KV("name", JStr("f")), KV("name", JStr("g")), KV("type", JStr("int"))>>),
           JArr(<<JStr("f"), JNull, JStr("int")>>),
           JArr(<<JStr("f"), JStr("text"), JStr("int"), JStr("abc")>>),
           JArr(<<JStr("f"), JStr("int")>>),
           JStr("f") }

FieldsChoices ==
    { <<KV("fields", JArr(<<f>>))>> : f \in FieldChoices }
    \cup { <<KV("fields", JArr(<<>>))>>,
           <<>>,
           <<KV("fields", JNum(5))>>,
           <<KV("fields", JArr(<<FieldOf(JStr("long"), <<>>),
                                  JObj(<<KV("name", JStr("g")), KV("type", JStr("MD5")),
                                         KV("default", JStr("d"))>>)>>))>> }

SymbolsChoices ==
    { <<KV("symbols", JArr(<<JStr("A"), JStr("B")>>))>>,
      <<KV("symbols", JArr(<<JStr("A"), JStr("B")>>)), KV("default", JStr("A"))>>,
      <<KV("symbols", JArr(<<JStr("A")>>)), KV("default", JNum(0))>>,
      <<>>,
      <<KV("symbols", JStr("A"))>>,
      <<KV("symbols", JArr(<<JNum(1)>>))>> }

\* what a nested position (items, values, a field's type, a union member) may hold
Leaves ==
    { JStr("int"), JStr("MD5"), JEsc("MD5"), JNum(5), JNull,
      JObj(<<KV("name", JStr("x"))>>),
      JObj(<<KV("long", JNull)>>) }

TypeValues ==
    { JStr("long"), JStr("MD5"), JEsc("long"), JEsc("MD5"), JNum(7), JStr("Long"),
      JObj(<<KV("int", JNull)>>) }

TypeObjs ==
    { JObj(<<KV("type", t)>> \o a) :
        t \in TypeValues,
        a \in AttrChoices \cup BadAttrChoices \cup {<<KV("name", JStr("n"))>>} }
    \cup { JObj(a \o <<KV("type", JStr("long"))>>) : a \in AttrChoices }
    \cup { JObj(<<KV("type", JStr("long")), KV("type", JStr("int"))>>),
           JObj(<<KV("type", JStr("long")), KV("scale", JNum(1)), KV("scale", JNum(2))>>) }

Tagged(tag, body) == JObj(<<KV("type", tag)>> \o body)

FixedObjs ==
    { Tagged(JStr("fixed"), <<KV("name", JStr("n"))>> \o o \o s \o a) :
        o \in OptChoices, s \in SizeChoices, a \in AttrChoices }
    \cup { Tagged(JStr("fixed"), n \o <<KV("size", JNum(11))>> \o a) :
             n \in NameChoices, a \in BadAttrChoices \cup {<<>>} }
    \cup { JObj(<<KV("name", JStr("n")), KV("size", JNum(11)), KV("type", t)>>) :
             t \in {JStr("fixed"), JEsc("fixed"), JNum(4), JNum(5), JStr("Fixed")} }

RecordObjs ==
    { Tagged(JStr("record"), <<KV("name", JStr("n"))>> \o o \o f) :
        o \in OptChoices, f \in FieldsChoices }
    \cup { Tagged(JStr("record"), n \o <<KV("fields", JArr(<<>>))>> \o a) :
             n \in NameChoices,
             a \in AttrChoices \cup BadAttrChoices \cup {<<KV("size", JNum(3))>>} }

EnumObjs ==
    { Tagged(JStr("enum"), <<KV("name", JStr("n"))>> \o o \o s \o a) :
        o \in OptChoices, s \in SymbolsChoices, a \in {<<>>, <<KV("logicalType", JStr("x"))>>} }
    \cup { Tagged(JStr("enum"), n \o <<KV("symbols", JArr(<<>>))>> \o a) :
             n \in NameChoices, a \in AttrChoices \cup BadAttrChoices }

ArrayObjs ==
    { Tagged(JStr("array"), <<KV("items", x)>> \o a) :
        x \in Leaves,
        a \in AttrChoices \cup BadAttrChoices \cup {<<KV("name", JStr("n"))>>} }
    \cup { Tagged(JStr("array"), <<>>),
           Tagged(JStr("array"), <<KV("values", JStr("int"))>>),
           Tagged(JStr("array"), <<KV("items", JStr("int")), KV("items", JStr("long"))>>) }

MapObjs ==
    { Tagged(JStr("map"), <<KV("values", x)>> \o a) :
        x \in Leaves,
        a \in AttrChoices \cup BadAttrChoices \cup {<<KV("name", JStr("n"))>>} }
    \cup { Tagged(JStr("map"), <<>>),
           Tagged(JStr("map"), <<KV("items", JStr("int"))>>) }

BareDocs ==
    { JStr(w) : w \in PrimitiveWords }
    \cup { JEsc(w) : w \in {"int", "string"} }
    \cup { JStr(s) : s \in {"MD5", "Int", "INT", "record", "ns.Name", ""} }
    \cup { JEsc(s) : s \in {"MD5", "q\"t"} }
    \cup { JNull, JBool(TRUE), JBool(FALSE), JNum(0), JNum(-1), JFloat(1) }
    \cup { JObj(<<>>), JObj(<<KV("name", JStr("x"))>>),
           JObj(<<KV("name", JStr("x")), KV("size", JNum(1))>>),
           JObj(<<KV("logicalType", JStr("decimal"))>>) }
    \cup { JObj(<<KV(w, JNull)>>) : w \in {"int", "long"} }
    \cup { JObj(<<KV("int", JNum(1))>>), JObj(<<KV("items", JNull)>>),
           JObj(<<KV("int", JNull), KV("long", JNull)>>) }

\* documents that are nested under the wrappers
Core ==
    { JStr("int"), JStr("null"), JStr("MD5"), JEsc("MD5"), JNum(5),
      JObj(<<KV("name", JStr("x"))>>),
      JObj(<<KV("int", JNull)>>),
      Tagged(JStr("fixed"), <<KV("name", JStr("n")), KV("size", JNum(11)),
                              KV("logicalType", JStr("decimal")),
                              KV("precision", JNum(25)), KV("scale", JNum(2))>>),
      Tagged(JStr("fixed"), <<KV("name", JStr("n")), KV("size", JNum(-1))>>),
      Tagged(JStr("long"), <<KV("logicalType", JStr("timestamp-micros"))>>) }

Pads == UNION { [1..n -> {JStr("null")}] : n \in 0..(MaxUnionLen - 1) }

Wrap(x) ==
    { JArr(<<x>> \o p) : p \in Pads }
    \cup { JArr(p \o <<x>>) : p \in Pads }
    \cup { Tagged(JStr("array"), <<KV("items", x)>>),
           Tagged(JStr("map"), <<KV("values", x), KV("scale", JNum(2)), KV("precision", JNum(9))>>),
           Tagged(JStr("record"), <<KV("name", JStr("r")), KV("fields", JArr(<<FieldOf(x, <<>>)>>))>>) }

RECURSIVE Nested(_)
Nested(d) ==
    IF d = 0 THEN Core
    ELSE Core \cup UNION { Wrap(x) : x \in Nested(d - 1) }

Docs ==
    BareDocs \cup TypeObjs \cup FixedObjs \cup RecordObjs \cup EnumObjs \cup ArrayObjs
    \cup MapObjs \cup Nested(MaxDepth) \cup { JArr(<<>>) }

Seeds == 1..NumSeeds

----------------------------------------------------------------------------
(* The bloom-filter run: literals and their parse *)

\* a literal is the sequence of its characters
DigitChars == <<"0", "1", "2", "3", "4", "5", "6", "7", "8", "9">>

IsDigit(c) == \E i \in 1..10 : DigitChars[i] = c

DigitVal(c) == (CHOOSE i \in 1..10 : DigitChars[i] = c) - 1

\* the magnitudes of the bounds of i32 and i64, as digits
I32Max == <<"2", "1", "4", "7", "4", "8", "3", "6", "4", "7">>
I32MinMag == <<"2", "1", "4", "7", "4", "8", "3", "6", "4", "8">>
I64Max == <<"9", "2", "2", "3", "3", "7", "2", "0", "3", "6", "8", "5", "4", "7", "7", "5",
            "8", "0", "7">>
I64MinMag == <<"9", "2", "2", "3", "3", "7", "2", "0", "3", "6", "8", "5", "4", "7", "7", "5",
               "8", "0", "8">>

\* a magnitude (digits without leading zeros) beyond a limit of the same form
Exceeds(mag, limit) ==
    \/ Len(mag) > Len(limit)
    \/ /\ Len(mag) = Len(limit)
       /\ \E i \in 1..Len(mag) :
             /\ \A j \in 1..(i - 1) : mag[j] = limit[j]
             /\ DigitVal(mag[i]) > DigitVal(limit[i])

\* result * 10 + digit on a magnitude
Push(mag, c) == IF mag = <<>> /\ c = "0" THEN <<>> ELSE Append(mag, c)

ParseError(kind) == [ok |-> FALSE, kind |-> kind]

\* an integer value, written in its shortest decimal form
IntValue(neg, mag) ==
    IF mag = <<>> THEN <<"0">> ELSE (IF neg THEN <<"-">> ELSE <<>>) \o mag

\* the digit loop of from_str_radix: an invalid digit is found before the overflow
\* of the same position
RECURSIVE ParseDigits(_, _, _, _)
ParseDigits(digits, mag, neg, limit) ==
    IF digits = <<>> THEN Ok(IntValue(neg, mag))
    ELSE IF ~IsDigit(Head(digits)) THEN ParseError("InvalidDigit")
    ELSE IF Exceeds(Push(mag, Head(digits)), limit)
         THEN ParseError(IF neg THEN "NegOverflow" ELSE "PosOverflow")
         ELSE ParseDigits(Tail(digits), Push(mag, Head(digits)), neg, limit)

\* str::parse for a signed integer type whose bounds have these magnitudes
ParseInt(chars, max, minMag) ==
    IF chars = <<>> THEN ParseError("Empty")
    ELSE IF Head(chars) \in {"+", "-"} /\ Len(chars) = 1 THEN ParseError("InvalidDigit")
    ELSE IF Head(chars) = "+" THEN ParseDigits(Tail(chars), <<>>, FALSE, max)
    ELSE IF Head(chars) = "-" THEN ParseDigits(Tail(chars), <<>>, TRUE, minMag)
    ELSE ParseDigits(chars, <<>>, FALSE, max)

ParseI32(chars) == ParseInt(chars, I32Max, I32MinMag)
ParseI64(chars) == ParseInt(chars, I64Max, I64MinMag)

----------------------------------------------------------------------------
(* The bloom-filter run: the file and check_filter *)

\* parquet::basic::Type, the physical types of a column
PhysicalTypes ==
    {"BOOLEAN", "INT32", "INT64", "INT96", "FLOAT", "DOUBLE", "BYTE_ARRAY",
     "FIXED_LEN_BYTE_ARRAY"}

\* what Sbbf::check hashes: the bytes of an i32, of an i64 or of a str
I32Key(v) == [as |-> "i32", v |-> v]
I64Key(v) == [as |-> "i64", v |-> v]
StrKey(chars) == [as |-> "str", v |-> chars]

\* a bloom filter is the set of keys it reports as present
SbbfCheck(sbbf, key) == key \in sbbf.keys

NoSbbf == [some |-> FALSE]
Sbbf(keys) == [some |-> TRUE, keys |-> keys]

ColumnChunk(path, type, sbbf) == [path |-> path, type |-> type, sbbf |-> sbbf]

\* a row group: its column chunks, and whether get_row_group can read it
RowGroup(columns, readable) == [columns |-> columns, readable |-> readable]

\* the lines main prints
RowGroupLine(n) == [line |-> "Row group #", n |-> n]
RuleLine == [line |-> "================"]
ValueLine(value, present) ==
    [line |-> "Value is in bloom filter", value |-> value, present |-> present]
NoFilterLine(name) == [line |-> "No bloom filter found for column", column |-> name]
NoColumnLine(name, candidates) ==
    [line |-> "No column named found, candidate columns are", column |-> name,
     candidates |-> candidates]
ParseErrorLine(value, to, e) ==
    [line |-> "Unable to parse value", value |-> value, to |-> to, e |-> e]
UnsupportedLine(type) ==
    [line |-> "Unsupported column type for checking bloom filter", type |-> type]

Failed(msg) == [ok |-> FALSE, msg |-> msg]

check_filter(sbbf, value, c) ==
    CASE c.type = "INT32" ->
            IF ParseI32(value).ok
            THEN Ok(SbbfCheck(sbbf, I32Key(ParseI32(value).v)))
            ELSE Failed(ParseErrorLine(value, "i32", ParseI32(value).kind))
      [] c.type = "INT64" ->
            IF ParseI64(value).ok
            THEN Ok(SbbfCheck(sbbf, I64Key(ParseI64(value).v)))
            ELSE Failed(ParseErrorLine(value, "i64", ParseI64(value).kind))
      [] c.type = "BYTE_ARRAY" -> Ok(SbbfCheck(sbbf, StrKey(value)))
      [] OTHER -> Failed(UnsupportedLine(c.type))

\* the index of the first column chunk with this path, 0 when there is none
FindColumn(columns, name) ==
    IF \E i \in 1..Len(columns) : columns[i].path = name
    THEN CHOOSE i \in 1..Len(columns) :
            /\ columns[i].path = name
            /\ \A j \in 1..(i - 1) : columns[j].path # name
    ELSE 0

CandidateColumns(columns) == [i \in 1..Len(columns) |-> columns[i].path]

----------------------------------------------------------------------------
(* The bloom-filter run: the checked files and arguments *)

\* the literals given as values
Literals ==
    { <<"4", "2">>, <<"+", "4", "2">>, <<"-", "7">>, <<"0", "0", "7">>, <<>>, <<"4", "x">>,
      <<"-">>, I32MinMag, <<"-">> \o I32MinMag, I64MinMag }

ValueLists == UNION { [1..n -> Literals] : n \in 1..MaxValues }

ColumnNames == {"id", "zz"}

\* a filter that holds 42 under each of its three encodings, and an empty one
SbbfChoices ==
    { Sbbf({I32Key(<<"4", "2">>), I64Key(<<"4", "2">>), I64Key(I32MinMag),
            StrKey(<<"4", "2">>)}),
      Sbbf({}) }

RowGroupChoices ==
    { RowGroup(<<ColumnChunk("id", t, f)>>, TRUE) :
        t \in PhysicalTypes, f \in SbbfChoices }
    \cup { RowGroup(<<ColumnChunk("id", "INT32", NoSbbf)>>, TRUE),
           RowGroup(<<ColumnChunk("name", "BYTE_ARRAY", NoSbbf),
                      ColumnChunk("id", "INT64", Sbbf({}))>>, TRUE),
           RowGroup(<<ColumnChunk("name", "BYTE_ARRAY", Sbbf({})),
                      ColumnChunk("a.b", "INT32", NoSbbf)>>, TRUE),
           RowGroup(<<ColumnChunk("id", "DOUBLE", NoSbbf),
                      ColumnChunk("id", "INT32", Sbbf({}))>>, TRUE),
           RowGroup(<<>>, TRUE),
           RowGroup(<<ColumnChunk("id", "INT32", Sbbf({}))>>, FALSE),
           RowGroup(<<ColumnChunk("name", "BYTE_ARRAY", NoSbbf)>>, FALSE) }

RowGroupLists == UNION { [1..n -> RowGroupChoices] : n \in 0..MaxRowGroups }

\* a path that opens as a Parquet file, one that opens as something else, one that
\* does not open
ParquetFile(groups) == [opens |-> TRUE, parquet |-> TRUE, row_groups |-> groups]

Files ==
    { ParquetFile(g) : g \in RowGroupLists }
    \cup { [opens |-> TRUE, parquet |-> FALSE, row_groups |-> <<>>],
           [opens |-> FALSE, parquet |-> FALSE, row_groups |-> <<>>] }

Args(name, vs) == [column |-> name, values |-> vs]

----------------------------------------------------------------------------
(* The bloom-filter run: main *)

\* the panics of main
Panics == {"Unable to open file", "Unable to open file as Parquet", "Unable to read row group"}

\* no bloom-filter run in this behaviour
NoRun ==
    /\ file = ParquetFile(<<>>)
    /\ args = Args("", <<>>)
    /\ cpc = "off"
    /\ ri = 0
    /\ vi = 0
    /\ out = <<>>

\* no schema run in this behaviour
NoDocument ==
    /\ doc = JNull
    /\ pc = "off"
    /\ result = Err
    /\ seed = 1
    /\ text = JNull
    /\ result2 = Err
    /\ seed2 = 1
    /\ text2 = JNull

\* Args::parse: a file name, a column and at least one value
CliInit ==
    /\ NoDocument
    /\ file \in Files
    /\ args \in { Args(name, vs) : name \in ColumnNames, vs \in ValueLists }
    /\ cpc = "start"
    /\ ri = 0
    /\ vi = 0
    /\ out = <<>>

\* File::open(path).expect(..)
OpenFile ==
    /\ cpc = "start"
    /\ cpc' = IF file.opens THEN "opened" ELSE "Unable to open file"
    /\ UNCHANGED <<file, args, ri, vi, out>>
    /\ UNCHANGED schemaVars

\* SerializedFileReader::new_with_options(..).expect(..), then the first row group
ReadMetadata ==
    /\ cpc = "opened"
    /\ IF file.parquet
       THEN cpc' = "row_groups" /\ ri' = 1
       ELSE cpc' = "Unable to open file as Parquet" /\ ri' = ri
    /\ UNCHANGED <<file, args, vi, out>>
    /\ UNCHANGED schemaVars

\* the body of the loop over the row groups, up to the loop over the values
EnterRowGroup ==
    /\ cpc = "row_groups"
    /\ ri <= Len(file.row_groups)
    /\ LET row_group == file.row_groups[ri]
           column_index == FindColumn(row_group.columns, args.column)
           header == out \o <<RowGroupLine(ri - 1), RuleLine>>
       IN IF column_index = 0
          THEN /\ out' = Append(header,
                                NoColumnLine(args.column, CandidateColumns(row_group.columns)))
               /\ ri' = ri + 1
               /\ UNCHANGED <<cpc, vi>>
          ELSE IF ~row_group.readable
          THEN /\ out' = header
               /\ cpc' = "Unable to read row group"
               /\ UNCHANGED <<ri, vi>>
          ELSE IF row_group.columns[column_index].sbbf.some
          THEN /\ out' = header
               /\ cpc' = "values"
               /\ vi' = 1
               /\ UNCHANGED ri
          ELSE /\ out' = Append(header, NoFilterLine(args.column))
               /\ ri' = ri + 1
               /\ UNCHANGED <<cpc, vi>>
    /\ UNCHANGED <<file, args>>
    /\ UNCHANGED schemaVars

\* one turn of args.values.iter().for_each; after the last value, the next row group
CheckValue ==
    /\ cpc = "values"
    /\ LET row_group == file.row_groups[ri]
           c == row_group.columns[FindColumn(row_group.columns, args.column)]
           value == args.values[vi]
           checked == check_filter(c.sbbf, value, c)
       IN out' = Append(out, IF checked.ok THEN ValueLine(value, checked.v) ELSE checked.msg)
    /\ IF vi < Len(args.values)
       THEN vi' = vi + 1 /\ UNCHANGED <<cpc, ri>>
       ELSE vi' = 0 /\ cpc' = "row_groups" /\ ri' = ri + 1
    /\ UNCHANGED <<file, args>>
    /\ UNCHANGED schemaVars

\* the loop over the row groups ends and main returns
Return ==
    /\ cpc = "row_groups"
    /\ ri > Len(file.row_groups)
    /\ cpc' = "done"
    /\ UNCHANGED <<file, args, ri, vi, out>>
    /\ UNCHANGED schemaVars

CliNext == OpenFile \/ ReadMetadata \/ EnterRowGroup \/ CheckValue \/ Return

CliSpec == CliInit /\ [][CliNext]_vars

----------------------------------------------------------------------------
(* The run: decode a document, encode the graph, decode the text again, *)
(* encode the second graph                                             *)

Pending == Err

Init ==
    /\ doc \in Docs
    /\ pc = "input"
    /\ result = Pending
    /\ seed = 1
    /\ text = JNull
    /\ result2 = Pending
    /\ seed2 = 1
    /\ text2 = JNull
    /\ NoRun

\* serde_json::from_str::<Schema>(doc); the HashMaps of the graph draw their hasher
Decode ==
    /\ pc = "input"
    /\ result' = DeserializeSchema(doc)
    /\ seed' \in (IF result'.ok THEN Seeds ELSE {1})
    /\ pc' = IF result'.ok THEN "decoded" ELSE "failed"
    /\ UNCHANGED <<doc, text, result2, seed2, text2>>
    /\ UNCHANGED cliVars

\* serde_json::to_string(&schema)
Encode ==
    /\ pc = "decoded"
    /\ text' = SerializeSchema(result.v, seed)
    /\ pc' = "encoded"
    /\ UNCHANGED <<doc, result, seed, result2, seed2, text2>>
    /\ UNCHANGED cliVars

\* serde_json::from_str::<Schema>(text)
Redecode ==
    /\ pc = "encoded"
    /\ result2' = DeserializeSchema(text)
    /\ seed2' \in (IF result2'.ok THEN Seeds ELSE {1})
    /\ pc' = IF result2'.ok THEN "redecoded" ELSE "refailed"
    /\ UNCHANGED <<doc, result, seed, text, text2>>
    /\ UNCHANGED cliVars

\* serde_json::to_string(&schema2)
Reencode ==
    /\ pc = "redecoded"
    /\ text2' = SerializeSchema(result2.v, seed2)
    /\ pc' = "done"
    /\ UNCHANGED <<doc, result, seed, text, result2, seed2>>
    /\ UNCHANGED cliVars

Next == Decode \/ Encode \/ Redecode \/ Reencode

Spec == Init /\ [][Next]_vars

----------------------------------------------------------------------------
(* Vocabulary of the properties *)

Decoded == pc \in {"decoded", "encoded", "redecoded", "refailed", "done"}
Attempted == pc # "input"
Reattempted == pc \in {"redecoded", "refailed", "done"}

\* the keys the specification calls recognized
RecognizedKeys ==
    {"name", "namespace", "doc", "aliases", "fields", "symbols", "default", "size", "items",
     "values", "type", "logicalType"}

\* an object whose "type" is textually one of the five complex tags
HasComplexTag(j) ==
    /\ j.k = "obj"
    /\ Count(j.o, "type") = 1
    /\ Get(j.o, "type").k = "str"
    /\ Get(j.o, "type").s \in ComplexTagSet

TagOf(j) == Get(j.o, "type").s

Borrowable(j) == j.k = "str" /\ ~j.esc
AbsentOr(o, key, p) == Count(o, key) = 0 \/ (Count(o, key) = 1 /\ p)
Present(o, key, p) == Count(o, key) = 1 /\ p
NullOrStr(j) == j.k = "null" \/ Borrowable(j)
StrList(j) == j.k = "arr" /\ \A i \in 1..Len(j.a) : Borrowable(j.a[i])
NaturalNumber(j) == j.k = "num" /\ j.n >= 0
IsSchema(j) == DeserializeSchema(j).ok

\* a field object whose keys hold what Field declares
WellFormedField(f) ==
    /\ f.k = "obj"
    /\ Present(f.o, "name", Borrowable(Get(f.o, "name")))
    /\ AbsentOr(f.o, "doc", NullOrStr(Get(f.o, "doc")))
    /\ Present(f.o, "type", IsSchema(Get(f.o, "type")))
    /\ AbsentOr(f.o, "default", NullOrStr(Get(f.o, "default")))

FieldList(j) == j.k = "arr" /\ \A i \in 1..Len(j.a) : WellFormedField(j.a[i])

\* the payload keys of a complex-tag object hold what the tag's struct declares
WellFormedPayload(j) ==
    LET o == j.o
    IN /\ AbsentOr(o, "logicalType", NullOrStr(Get(o, "logicalType")))
       /\ CASE TagOf(j) = "record" ->
                 /\ Present(o, "name", Borrowable(Get(o, "name")))
                 /\ AbsentOr(o, "namespace", NullOrStr(Get(o, "namespace")))
                 /\ AbsentOr(o, "doc", NullOrStr(Get(o, "doc")))
                 /\ AbsentOr(o, "aliases", StrList(Get(o, "aliases")))
                 /\ Present(o, "fields", FieldList(Get(o, "fields")))
            [] TagOf(j) = "enum" ->
                 /\ Present(o, "name", Borrowable(Get(o, "name")))
                 /\ AbsentOr(o, "namespace", NullOrStr(Get(o, "namespace")))
                 /\ AbsentOr(o, "doc", NullOrStr(Get(o, "doc")))
                 /\ AbsentOr(o, "aliases", StrList(Get(o, "aliases")))
                 /\ Present(o, "symbols", StrList(Get(o, "symbols")))
                 /\ AbsentOr(o, "default", NullOrStr(Get(o, "default")))
            [] TagOf(j) = "array" -> Present(o, "items", IsSchema(Get(o, "items")))
            [] TagOf(j) = "map" -> Present(o, "values", IsSchema(Get(o, "values")))
            [] TagOf(j) = "fixed" ->
                 /\ Present(o, "name", Borrowable(Get(o, "name")))
                 /\ AbsentOr(o, "namespace", NullOrStr(Get(o, "namespace")))
                 /\ AbsentOr(o, "aliases", StrList(Get(o, "aliases")))
                 /\ Present(o, "size", NaturalNumber(Get(o, "size")))

\* the Attributes of a decoded type declaration
AttributesOf(s) == IF s.v = "Type" THEN s.t.attributes ELSE s.c.attributes

\* every Attributes value of a decoded graph
RECURSIVE AllAttributes(_)
AllAttributes(s) ==
    CASE s.v = "TypeName" -> {}
      [] s.v = "Union" -> UNION { AllAttributes(s.members[i]) : i \in 1..Len(s.members) }
      [] s.v = "Type" -> {s.t.attributes}
      [] s.v = "Complex" ->
            {s.c.attributes}
            \cup CASE s.c.tag = "record" ->
                        UNION { AllAttributes(s.c.fields[i].type) : i \in 1..Len(s.c.fields) }
                   [] s.c.tag = "array" -> AllAttributes(s.c.items)
                   [] s.c.tag = "map" -> AllAttributes(s.c.values)
                   [] OTHER -> {}

----------------------------------------------------------------------------
(* C1 *)

DispatchesToComplex(j, r) ==
    HasComplexTag(j) /\ WellFormedPayload(j)
        => r.ok /\ r.v.v = "Complex" /\ r.v.c.tag = TagOf(j)

----------------------------------------------------------------------------
(* C2 *)

\* C2: a JSON object whose "type" is one of the five complex tags but which has a
\* malformed literal or a wrong value type for a recognized key is a decode failure:
\* no Schema is produced, in particular no Schema::Type referring to the tag's name
C2_MalformedComplexFails ==
    Attempted /\ HasComplexTag(doc) /\ ~WellFormedPayload(doc) => ~result.ok

----------------------------------------------------------------------------
(* C4 *)

\* C4: in every decoded Schema graph no Attributes open mapping holds a recognized key
C4_NoRecognizedKeyLeaks ==
    Decoded => \A a \in AllAttributes(result.v) : DOMAIN a.additional \cap RecognizedKeys = {}

----------------------------------------------------------------------------
(* C5 *)

ExpectedTypeName(s) == IF s \in PrimitiveWords THEN Primitive(s) ELSE Ref(s)

\* C5: a bare JSON string decodes to Schema::TypeName: the matching PrimitiveType for
\* each of the 8 reserved words, a reference equal to the exact string for every other
\* string; encoding writes the word or the reference back
C5_BareStringIsTypeName ==
    doc.k = "str" =>
        /\ Attempted =>
              /\ result.ok
              /\ result.v = [v |-> "TypeName", name |-> ExpectedTypeName(doc.s)]
        /\ pc \in {"encoded", "redecoded", "refailed", "done"} =>
              text.k = "str" /\ text.s = doc.s

----------------------------------------------------------------------------
(* C3 *)

\* C3: round trip: for every Schema obtained from a successful decode, decoding its
\* encoding succeeds and yields an equal Schema (the open mapping compared as a map)
C3_RoundTrip ==
    Reattempted => result2.ok /\ result2.v = result.v

----------------------------------------------------------------------------
(* C6 *)

\* C6: a JSON array decodes to Schema::Union whose i-th member is the decode of the
\* i-th element, length and order preserved; unions with the same members in another
\* order are not equal; if any element fails to decode the whole decode fails
C6_UnionMembersInOrder ==
    Attempted /\ doc.k = "arr" =>
        /\ result.ok <=> \A i \in 1..Len(doc.a) : DeserializeSchema(doc.a[i]).ok
        /\ result.ok =>
              /\ result.v.v = "Union"
              /\ Len(result.v.members) = Len(doc.a)
              /\ \A i \in 1..Len(doc.a) :
                    result.v.members[i] = DeserializeSchema(doc.a[i]).v
              /\ LET n == Len(doc.a)
                     rev == DeserializeSchema(JArr([i \in 1..n |-> doc.a[n + 1 - i]]))
                 IN /\ rev.ok
                    /\ (\E i \in 1..n : result.v.members[i] # result.v.members[n + 1 - i])
                          => rev.v # result.v

C6_Witness ==
    /\ pc = "decoded"
    /\ doc.k = "arr"
    /\ Len(doc.a) = 2
    /\ result.v.v = "Union"
    /\ result.v.members[1].v = "Union"
    /\ result.v.members[1].members[1].v = "Complex"
    /\ result.v.members[2] = [v |-> "TypeName", name |-> Primitive("null")]
    /\ DeserializeSchema(JArr(<<doc.a[2], doc.a[1]>>)).v # result.v

C6_WitnessFailingMember ==
    /\ pc = "failed"
    /\ doc.k = "arr"
    /\ Len(doc.a) = 2
    /\ IsSchema(doc.a[1])
    /\ ~IsSchema(doc.a[2])

----------------------------------------------------------------------------
(* C7 *)

IsDeclaration(s) == s.v \in {"Type", "Complex"}

ExpectedLogicalType(j) == IF j.k = "null" THEN None ELSE Some(j.s)

AttributesCaptured(j, r) ==
    j.k = "obj" /\ r.ok /\ IsDeclaration(r.v) =>
        LET a == AttributesOf(r.v)
        IN /\ \A key \in KeysOf(j.o) \ RecognizedKeys :
                 /\ key \in DOMAIN a.additional
                 /\ a.additional[key] = ToValue(LastVal(j.o, key))
                 /\ LastVal(j.o, key).k = "num" => a.additional[key] = LastVal(j.o, key)
           /\ "logicalType" \notin DOMAIN a.additional
           /\ "logicalType" \in KeysOf(j.o) =>
                 a.logical_type = ExpectedLogicalType(Get(j.o, "logicalType"))
           /\ "logicalType" \notin KeysOf(j.o) => a.logical_type = None
           /\ KeysOf(j.o) \subseteq {"type", "logicalType"} => DOMAIN a.additional = {}

\* C7: for a JSON object that decodes to a type declaration, every key outside the
\* recognized set is in the Attributes open mapping with its JSON value unchanged,
\* "logicalType" fills the logical_type slot and is not in the open mapping, and an
\* object with only "type" and "logicalType" has an empty open mapping
C7_AttributesCaptured ==
    /\ Attempted => AttributesCaptured(doc, result)
    /\ Reattempted => AttributesCaptured(text, result2)

C7_Witness ==
    /\ pc = "decoded"
    /\ HasComplexTag(doc)
    /\ TagOf(doc) = "fixed"
    /\ KeysOf(doc.o) = {"type", "name", "size", "logicalType", "precision", "scale"}
    /\ result.v.c.attributes =
          [logical_type |-> Some("decimal"),
           additional |-> [key \in {"precision", "scale"} |->
                              IF key = "precision" THEN JNum(25) ELSE JNum(2)]]

----------------------------------------------------------------------------
(* C8 *)

FieldButDefault(f) ==
    /\ f.k = "obj"
    /\ Present(f.o, "name", Borrowable(Get(f.o, "name")))
    /\ AbsentOr(f.o, "doc", NullOrStr(Get(f.o, "doc")))
    /\ Present(f.o, "type", IsSchema(Get(f.o, "type")))
    /\ Count(f.o, "default") <= 1

FieldButDefaultList(j) == j.k = "arr" /\ \A i \in 1..Len(j.a) : FieldButDefault(j.a[i])

\* a record object that is well-formed whatever its fields' defaults hold
RecordButDefaults(j) ==
    /\ HasComplexTag(j)
    /\ TagOf(j) = "record"
    /\ WellFormedPayload(Tagged(JStr("record"), Without(j.o, {"type", "fields"})
                                                   \o <<KV("fields", JArr(<<>>))>>))
    /\ Present(j.o, "fields", FieldButDefaultList(Get(j.o, "fields")))

\* C8: a record field's "default", of any JSON value kind, is captured as text: the
\* decode succeeds and Field.default holds the default; without the key it is absent
C8_DefaultCapturedVerbatim ==
    Attempted /\ RecordButDefaults(doc) =>
        /\ result.ok
        /\ result.v.v = "Complex"
        /\ result.v.c.tag = "record"
        /\ LET fs == Get(doc.o, "fields").a
           IN /\ Len(result.v.c.fields) = Len(fs)
              /\ \A i \in 1..Len(fs) :
                    result.v.c.fields[i].default.some <=> Count(fs[i].o, "default") = 1

----------------------------------------------------------------------------
(* C9 *)

\* a JSON value that has none of the four shapes
Shapeless(j) ==
    \/ j.k \in {"num", "float", "bool", "null"}
    \/ j.k = "obj" /\ "type" \notin KeysOf(j.o)

HasShapelessFieldType(j) ==
    /\ j.k = "arr"
    /\ \E i \in 1..Len(j.a) :
          j.a[i].k = "obj" /\ Present(j.a[i].o, "type", Shapeless(Get(j.a[i].o, "type")))

\* C9: a JSON value that matches none of the four shapes (an object without a "type"
\* key, a number, a boolean, null) fails to decode, at top level and as a union
\* member, array items, map values or a field's type
C9_ShapelessFails ==
    Attempted =>
        /\ Shapeless(doc) => ~result.ok
        /\ doc.k = "arr" /\ (\E i \in 1..Len(doc.a) : Shapeless(doc.a[i])) => ~result.ok
        /\ HasComplexTag(doc) /\ TagOf(doc) = "array"
              /\ Present(doc.o, "items", Shapeless(Get(doc.o, "items")))
              => ~result.ok
        /\ HasComplexTag(doc) /\ TagOf(doc) = "map"
              /\ Present(doc.o, "values", Shapeless(Get(doc.o, "values")))
              => ~result.ok
        /\ HasComplexTag(doc) /\ TagOf(doc) = "record"
              /\ Present(doc.o, "fields", HasShapelessFieldType(Get(doc.o, "fields")))
              => ~result.ok

----------------------------------------------------------------------------
(* C10 *)

TypeKeyFirst(j) == j.k = "obj" => Len(j.o) >= 1 /\ j.o[1].key = "type"

\* C10: encode is canonical: an emitted object lists "type" first, and two equal
\* Schema values are encoded to the identical text
C10_EncodeCanonical ==
    /\ pc \in {"encoded", "redecoded", "refailed", "done"} => TypeKeyFirst(text)
    /\ pc = "done" /\ result2.v = result.v => text2 = text

----------------------------------------------------------------------------
(* C11 *)

\* the keys Record, Enum and Fixed may leave out
OptionalKeys == {"namespace", "doc", "aliases", "default"}

NamedTags == {"record", "enum", "fixed"}

\* the decode produced a Record, an Enum or a Fixed
IsNamed(r) == r.ok /\ r.v.v = "Complex" /\ r.v.c.tag \in NamedTags

\* the same object with its optional keys left out
Stripped(j) == JObj(Without(j.o, OptionalKeys))

\* the optional keys that are written hold what the tag's struct declares for them
OptionalKeysWellFormed(j) ==
    LET o == j.o
    IN /\ AbsentOr(o, "namespace", NullOrStr(Get(o, "namespace")))
       /\ AbsentOr(o, "aliases", StrList(Get(o, "aliases")))
       /\ TagOf(j) \in {"record", "enum"} => AbsentOr(o, "doc", NullOrStr(Get(o, "doc")))
       /\ TagOf(j) = "enum" => AbsentOr(o, "default", NullOrStr(Get(o, "default")))

\* every optional key that is left out took its default
DefaultsTaken(j, r) ==
    IsNamed(r) =>
        LET c == r.v.c
        IN /\ Count(j.o, "aliases") = 0 => c.aliases = <<>>
           /\ \A key \in {"namespace", "doc", "default"} :
                 Count(j.o, key) = 0 =>
                     /\ key \in DOMAIN c => c[key] = None
                     /\ key \notin DOMAIN c.attributes.additional

SameVariant(r, s) == s.ok /\ s.v.v = "Complex" /\ s.v.c.tag = r.v.c.tag

\* leaving the optional keys out, or writing them, keeps the variant
VariantKept(j, r) ==
    IF IsNamed(r)
    THEN SameVariant(r, DeserializeSchema(Stripped(j)))
    ELSE ~ ( /\ HasComplexTag(j)
             /\ TagOf(j) \in NamedTags
             /\ OptionalKeysWellFormed(j)
             /\ IsNamed(DeserializeSchema(Stripped(j))) )

\* the states a decode leaves; what it read and what it produced are not written again
JustDecoded == pc \in {"decoded", "failed"}
JustRedecoded == pc \in {"redecoded", "refailed"}

C11_WitnessWritten ==
    /\ pc = "decoded"
    /\ IsNamed(result)
    /\ result.v.c.tag = "fixed"
    /\ result.v.c.aliases = <<"a1", "a2">>
    /\ result.v.c.namespace = Some("ns")
    /\ IsNamed(DeserializeSchema(Stripped(doc)))
    /\ DeserializeSchema(Stripped(doc)).v.c.aliases = <<>>

----------------------------------------------------------------------------
(* Vocabulary of the properties of the bloom-filter run *)

Stopped == cpc = "done" \/ cpc \in Panics

\* the run got past the metadata and stopped
StoppedInLoop == cpc = "done" \/ cpc = "Unable to read row group"

IsDiagnostic(l) ==
    l.line \in {"Unable to parse value", "Unsupported column type for checking bloom filter"}

DiagnosticReported == \E k \in 1..Len(out) : IsDiagnostic(out[k])

\* the numbers of the row groups whose heading was printed, in the order printed
RowGroupsPrinted ==
    LET headings == SelectSeq(out, LAMBDA l : l.line = "Row group #")
    IN [k \in 1..Len(headings) |-> headings[k].n]

AllRowGroupsInOrder == RowGroupsPrinted = [k \in 1..Len(file.row_groups) |-> k - 1]

\* the lines printed for row group number n, after its heading and rule
HeadingAt(n) == CHOOSE k \in 1..Len(out) : out[k] = RowGroupLine(n)

Printed(n) ==
    SubSeq(out, HeadingAt(n) + 2,
           IF RowGroupLine(n + 1) \in {out[k] : k \in 1..Len(out)}
           THEN HeadingAt(n + 1) - 1
           ELSE Len(out))

----------------------------------------------------------------------------
(* C12 *)

\* C12: per-item failures never abort the bloom-filter run: once an unparsable literal
\* or an unsupported column type has been reported for a value, the run stops only
\* after every remaining value and every remaining row group was processed in order;
\* and the only events that end the run early are the failure to open the file and
\* the failure to read its metadata
C12_PerItemFailuresNeverAbort ==
    /\ cpc \in Panics => cpc \in {"Unable to open file", "Unable to open file as Parquet"}
    /\ Stopped /\ DiagnosticReported =>
          /\ cpc = "done"
          /\ AllRowGroupsInOrder
          /\ \A n \in 1..Len(file.row_groups) :
                (\E k \in 1..Len(Printed(n - 1)) : IsDiagnostic(Printed(n - 1)[k]))
                    => Len(Printed(n - 1)) = Len(args.values)

----------------------------------------------------------------------------
(* C13 *)

HasColumn(g) == \E i \in 1..Len(g.columns) : g.columns[i].path = args.column

TheColumn(g) == g.columns[FindColumn(g.columns, args.column)]

\* the line for one value, given the physical type of the column
LineFits(l, c, value) ==
    CASE c.type = "INT32" ->
            IF ParseI32(value).ok
            THEN l = ValueLine(value, I32Key(ParseI32(value).v) \in c.sbbf.keys)
            ELSE l.line = "Unable to parse value" /\ l.value = value /\ l.to = "i32"
      [] c.type = "INT64" ->
            IF ParseI64(value).ok
            THEN l = ValueLine(value, I64Key(ParseI64(value).v) \in c.sbbf.keys)
            ELSE l.line = "Unable to parse value" /\ l.value = value /\ l.to = "i64"
      [] c.type = "BYTE_ARRAY" -> l = ValueLine(value, StrKey(value) \in c.sbbf.keys)
      [] OTHER -> l = UnsupportedLine(c.type)

\* the one outcome of a row group
OutcomeFits(lines, g) ==
    IF ~HasColumn(g)
    THEN lines = <<NoColumnLine(args.column, [i \in 1..Len(g.columns) |-> g.columns[i].path])>>
    ELSE IF ~TheColumn(g).sbbf.some
    THEN lines = <<NoFilterLine(args.column)>>
    ELSE /\ Len(lines) = Len(args.values)
         /\ \A v \in 1..Len(lines) : LineFits(lines[v], TheColumn(g), args.values[v])

\* C13: for each row group, in file order, the run emits exactly one of three outcomes:
\* one message listing every column of the row group when no column has the requested
\* name; one "no bloom filter" message when the column has no bloom filter; otherwise
\* one line per requested value, in the order given: present or absent as the filter
\* answers for the literal read as i32 (INT32), i64 (INT64) or bytes (BYTE_ARRAY), a
\* parse diagnostic when the literal does not parse, and "unsupported column type" for
\* every other physical type
C13_OneOutcomePerRowGroup ==
    StoppedInLoop =>
        /\ AllRowGroupsInOrder
        /\ \A n \in 1..Len(file.row_groups) : OutcomeFits(Printed(n - 1), file.row_groups[n])

\* both statements hold of the runs in which get_row_group reads every row group
ReadableRunsConform ==
    (\A n \in 1..Len(file.row_groups) : file.row_groups[n].readable)
        => C12_PerItemFailuresNeverAbort /\ C13_OneOutcomePerRowGroup

====
